---- MODULE Spec2Model ----
(***************************************************************************)
(* Model of CrosswordCreator (generate.py): the domain store, node         *)
(* consistency, revise, AC-3 and the backtracking search.                  *)
(*                                                                         *)
(* Words are sequences of letters; Python's 0-based index w[i] is          *)
(* w[i + 1] here.  A slot (Variable) is a record of its start cell,        *)
(* direction and length.  Python's None is the empty tuple << >>, which    *)
(* is neither a word nor an overlap.                                       *)
(***************************************************************************)
EXTENDS Integers, Sequences, FiniteSets, TLC

\* ------------------------------------------------------------- bounds ---
\* largest vocabulary of a run of the solver
MaxVocab == 3
\* largest vocabulary of a single call of revise / enforce_node_consistency
MaxUnitVocab == 2

\* ------------------------------------------------- puzzle structure -----
ACROSS == "across"
DOWN == "down"
None == << >>

Var(i, j, direction, length) ==
    [i |-> i, j |-> j, direction |-> direction, length |-> length]

\* the cells of a slot, in the order of its letters
Cells(v) ==
    [k \in 1..v.length |->
        << v.i + (IF v.direction = DOWN THEN k - 1 ELSE 0),
           v.j + (IF v.direction = ACROSS THEN k - 1 ELSE 0) >>]

IndexOf(cells, c) == (CHOOSE k \in 1..Len(cells) : cells[k] = c) - 1

\* the overlap of two slots: None, or the 0-based indices (i, j) of the
\* shared cell within each slot
Overlap(v1, v2) ==
    LET cells1 == Cells(v1)
        cells2 == Cells(v2)
        intersection == {cells1[k] : k \in 1..Len(cells1)}
                            \cap {cells2[k] : k \in 1..Len(cells2)}
    IN  IF intersection = {} THEN None
        ELSE LET c == CHOOSE c \in intersection : TRUE
             IN  << IndexOf(cells1, c), IndexOf(cells2, c) >>

\* crossword.overlaps: a table over the ordered pairs of distinct slots
Overlaps(variables) ==
    [p \in {q \in variables \X variables : q[1] # q[2]} |-> Overlap(p[1], p[2])]

\* The grids of the model ('#' is a letter cell, '.' a blocked one).
\*   Single    ###        Cross   .#.      Corner  ##     Parallel  ##
\*                                ###              #.               ..
\*                                .#.              #.               ##
\*   Arch      ###
\*             #.#
Single == {Var(0, 0, ACROSS, 3)}
Cross == {Var(1, 0, ACROSS, 3), Var(0, 1, DOWN, 3)}
Corner == {Var(0, 0, ACROSS, 2), Var(0, 0, DOWN, 3)}
Parallel == {Var(0, 0, ACROSS, 2), Var(2, 0, ACROSS, 2)}
Arch == {Var(0, 0, ACROSS, 3), Var(0, 0, DOWN, 2), Var(0, 2, DOWN, 2)}
Structures == {Single, Cross, Corner, Parallel, Arch}

\* the words a vocabulary is drawn from: two letters, the lengths of the slots
WordPool ==
    { <<"a", "a">>, <<"a", "b">>, <<"b", "a">>, <<"b", "b">>,
      <<"a", "a", "b">>, <<"a", "b", "a">>, <<"a", "b", "b">>, <<"b", "a", "b">> }
Vocabularies(max) == {W \in SUBSET WordPool : Cardinality(W) <= max}

Crossword(variables, words) ==
    [variables |-> variables, words |-> words, overlaps |-> Overlaps(variables)]

\* the iteration orders of a set: Python leaves the order of a set to the
\* hashes of its elements
Perms(S) ==
    {p \in [1..Cardinality(S) -> S] : \A a, b \in 1..Cardinality(S) : p[a] = p[b] => a = b}

VARIABLES
    crossword,   \* self.crossword: variables, words, overlaps
    order,       \* iteration order of crossword.variables and of self.domains
    entry,       \* the method the caller invoked: "solve", "backtrack", "unit"
    pc,          \* position in the program
    domains,     \* self.domains
    arcs,        \* the deque of the running ac3 call
    kind,        \* the running ac3 call: "full" (solve) or "incr" (backtrack)
    stack,       \* the active backtrack calls, innermost last
    assignment,  \* the argument of the backtrack call being entered / new_assignment
    result,      \* what the entry method returned
    last,        \* history: the operation the last step completed
    before,      \* history: self.domains before the last step
    full,        \* history: what the full ac3 call of solve returned
    ties,        \* the iteration order of a set of words, None when left open
    first        \* history: the number of the run and what the run before returned

vars == << crossword, order, entry, pc, domains, arcs, kind, stack, assignment,
           result, last, before, full, ties, first >>

\* crossword.neighbors(var)
neighbors(cw, var) ==
    {v \in cw.variables : v # var /\ cw.overlaps[<<v, var>>] # None}

\* overlaps.get((x, y)): None for a key that is not in the table
overlaps_get(cw, x, y) ==
    IF <<x, y>> \in DOMAIN cw.overlaps THEN cw.overlaps[<<x, y>>] ELSE None

\* ------------------------------------------------------ pure methods ---

\* (mutant) node consistency that drops only the words that are too long
enforce_node_consistency_too_long(dom) ==
    [var \in DOMAIN dom |->
        LET wrong_length == {value \in dom[var] : Len(value) > var.length}
        IN  dom[var] \ wrong_length]

\* enforce_node_consistency: the store after the call
enforce_node_consistency(dom) ==
    [var \in DOMAIN dom |->
        LET wrong_length == {value \in dom[var] : Len(value) # var.length}
        IN  dom[var] \ wrong_length]

\* x_value[i] == y_value[j], for indices that are in range
SameLetter(x_value, i, y_value, j) ==
    /\ i < Len(x_value)
    /\ j < Len(y_value)
    /\ x_value[i + 1] = y_value[j + 1]

\* revise can raise IndexError when some order of iteration over the two
\* sets reaches a word that is too short for the overlap index
MayRaise(dom, cw, x, y) ==
    LET overlap == overlaps_get(cw, x, y)
    IN  /\ overlap # None
        /\ \E x_value \in dom[x], y_value \in dom[y] :
               overlap[1] >= Len(x_value) \/ overlap[2] >= Len(y_value)

\* revise raises IndexError whatever the order of iteration: a word of x is
\* too short, or a word of y is too short and `any` finds no match before it
MustRaise(dom, cw, x, y) ==
    LET overlap == overlaps_get(cw, x, y)
    IN  /\ overlap # None
        /\ \E x_value \in dom[x] :
               /\ dom[y] # {}
               /\ \/ overlap[1] >= Len(x_value)
                  \/ /\ \E y_value \in dom[y] : overlap[2] >= Len(y_value)
                     /\ ~ \E y_value \in dom[y] :
                            SameLetter(x_value, overlap[1], y_value, overlap[2])

\* (mutant) revise that reads both words at the index i of x
to_remove_same_index(dom, cw, x, y) ==
    LET overlap == overlaps_get(cw, x, y)
    IN  {x_value \in dom[x] :
            ~ \E y_value \in dom[y] :
                SameLetter(x_value, overlap[1], y_value, overlap[1])}

\* the words revise(x, y) removes from the domain of x
to_remove(dom, cw, x, y) ==
    LET overlap == overlaps_get(cw, x, y)
    IN  {x_value \in dom[x] :
            ~ \E y_value \in dom[y] :
                SameLetter(x_value, overlap[1], y_value, overlap[2])}

\* (mutant) revise that prunes the domain of y as well
revise_both_sides(dom, cw, x, y) ==
    LET overlap == overlaps_get(cw, x, y)
        removed == to_remove(dom, cw, x, y)
        removed_y == to_remove(dom, cw, y, x)
    IN  IF overlap = None
        THEN {[ret |-> "False", domains |-> dom]}
        ELSE {[ret |-> IF removed # {} THEN "True" ELSE "False",
               domains |-> [dom EXCEPT ![x] = dom[x] \ removed,
                                       ![y] = dom[y] \ removed_y]]}

\* (mutant) revise that rebuilds the domain of x from the vocabulary
revise_from_words(dom, cw, x, y) ==
    LET overlap == overlaps_get(cw, x, y)
        kept == {x_value \in cw.words :
                    \E y_value \in dom[y] :
                        SameLetter(x_value, overlap[1], y_value, overlap[2])}
    IN  IF overlap = None
        THEN {[ret |-> "False", domains |-> dom]}
        ELSE {[ret |-> IF kept # dom[x] THEN "True" ELSE "False",
               domains |-> [dom EXCEPT ![x] = kept]]}

\* (mutant) revise that sets revised whenever the slots overlap
revise_always_revised(dom, cw, x, y) ==
    LET overlap == overlaps_get(cw, x, y)
        removed == to_remove(dom, cw, x, y)
    IN  IF overlap = None
        THEN {[ret |-> "False", domains |-> dom]}
        ELSE {[ret |-> "True", domains |-> [dom EXCEPT ![x] = dom[x] \ removed]]}

\* revise(x, y): the possible outcomes of the call, each the value returned
\* ("True", "False") or the exception raised ("IndexError"), and the store
\* it leaves.  The exception is raised while to_remove is collected, before
\* any word is removed.
revise(dom, cw, x, y) ==
    LET overlap == overlaps_get(cw, x, y)
        removed == to_remove(dom, cw, x, y)
    IN  IF overlap = None
        THEN {[ret |-> "False", domains |-> dom]}
        ELSE (IF MayRaise(dom, cw, x, y)
              THEN {[ret |-> "IndexError", domains |-> dom]}
              ELSE {})
             \cup
             (IF MustRaise(dom, cw, x, y)
              THEN {}
              ELSE {[ret |-> IF removed # {} THEN "True" ELSE "False",
                     domains |-> [dom EXCEPT ![x] = dom[x] \ removed]]})

\* (mutant) a deque that holds each pair of slots in one direction only
AllArcs_one_way(ord) ==
    LET n == Len(ord)
        flat == [k \in 1..(n * n) |-> << ord[((k - 1) \div n) + 1], ord[((k - 1) % n) + 1] >>]
    IN  SelectSeq(flat, LAMBDA a :
            \E p, q \in 1..n : p < q /\ ord[p] = a[1] /\ ord[q] = a[2])

\* the initial deque of ac3(): (x, y) for x in self.domains for y in
\* self.domains if x != y
AllArcs(ord) ==
    LET n == Len(ord)
        flat == [k \in 1..(n * n) |-> << ord[((k - 1) \div n) + 1], ord[((k - 1) % n) + 1] >>]
    IN  SelectSeq(flat, LAMBDA a : a[1] # a[2])

\* an assignment maps every slot to its word, or to None when the slot is
\* not a key of the dict
Keys(asg) == {v \in DOMAIN asg : asg[v] # None}
EmptyAssignment(cw) == [v \in cw.variables |-> None]

\* assignment_complete
assignment_complete(cw, asg) ==
    \A var \in cw.variables : ~ (var \notin Keys(asg) \/ asg[var] = None)

\* (mutant) consistent without the check that the values are distinct
consistent_no_distinct(cw, asg) ==
    \A var \in Keys(asg) :
        /\ Len(asg[var]) = var.length
        /\ \A neighbor \in neighbors(cw, var) :
              neighbor \in Keys(asg) =>
                  LET overlap == cw.overlaps[<<var, neighbor>>]
                  IN  overlap # None =>
                          SameLetter(asg[var], overlap[1], asg[neighbor], overlap[2])

\* consistent
consistent(cw, asg) ==
    /\ Cardinality(Keys(asg)) = Cardinality({asg[v] : v \in Keys(asg)})
    /\ \A var \in Keys(asg) :
          /\ Len(asg[var]) = var.length
          /\ \A neighbor \in neighbors(cw, var) :
                neighbor \in Keys(asg) =>
                    LET overlap == cw.overlaps[<<var, neighbor>>]
                    IN  overlap # None =>
                            SameLetter(asg[var], overlap[1], asg[neighbor], overlap[2])

RECURSIVE consistent_items(_, _, _, _)
\* the loop of consistent over assignment.items() from the k-th key of the
\* dict on: what it can return, or the IndexError it can raise when a word
\* of a neighbor later in the dict is too short for the overlap index; the
\* set of neighbors iterates in an order Python leaves open
consistent_items(cw, asg, keys, k) ==
    IF k > Len(keys) THEN {"True"}
    ELSE LET var == keys[k]
             value == asg[var]
             assigned == {neighbor \in neighbors(cw, var) :
                            /\ neighbor \in Keys(asg)
                            /\ cw.overlaps[<<var, neighbor>>] # None}
             raising == {neighbor \in assigned :
                            cw.overlaps[<<var, neighbor>>][2] >= Len(asg[neighbor])}
             differing == {neighbor \in assigned \ raising :
                            LET overlap == cw.overlaps[<<var, neighbor>>]
                            IN  value[overlap[1] + 1] # asg[neighbor][overlap[2] + 1]}
         IN  IF Len(value) # var.length THEN {"False"}
             ELSE IF raising \cup differing = {}
                  THEN consistent_items(cw, asg, keys, k + 1)
                  ELSE (IF raising # {} THEN {"IndexError"} ELSE {})
                           \cup (IF differing # {} THEN {"False"} ELSE {})

\* a call of consistent on any assignment, whose keys were inserted in the
\* order ord: the outcomes the call can have; consistent above is its value
\* for the assignments backtrack builds from a node-consistent store
consistent_call(cw, asg, ord) ==
    IF Cardinality(Keys(asg)) # Cardinality({asg[v] : v \in Keys(asg)})
    THEN {"False"}
    ELSE consistent_items(cw, asg, SelectSeq(ord, LAMBDA var : var \in Keys(asg)), 1)

\* (mutant) the count of the words of the neighbors that agree with value
count_conflicts_agreeing(cw, dom, var, asg, value) ==
    Cardinality(
        {p \in UNION {{<<neighbor, neighbor_val>> : neighbor_val \in dom[neighbor]} :
                            neighbor \in neighbors(cw, var) \ Keys(asg)} :
            LET overlap == cw.overlaps[<<var, p[1]>>]
            IN  overlap # None /\ SameLetter(value, overlap[1], p[2], overlap[2])})

\* count_conflicts(value) of order_domain_values(var, assignment)
count_conflicts(cw, dom, var, asg, value) ==
    Cardinality(
        {p \in UNION {{<<neighbor, neighbor_val>> : neighbor_val \in dom[neighbor]} :
                            neighbor \in neighbors(cw, var) \ Keys(asg)} :
            LET overlap == cw.overlaps[<<var, p[1]>>]
            IN  overlap # None /\ ~ SameLetter(value, overlap[1], p[2], overlap[2])})

\* order_domain_values: sorted() is stable, so the words of equal count keep
\* the iteration order of the set, which Python leaves open
order_domain_values(cw, dom, var, asg) ==
    {p \in Perms(dom[var]) :
        \A a, b \in 1..Len(p) :
            a < b => count_conflicts(cw, dom, var, asg, p[a])
                        <= count_conflicts(cw, dom, var, asg, p[b])}

\* the place of a word in the iteration order t
Place(t, w) == CHOOSE k \in 1..Len(t) : t[k] = w

\* (mutant) a sort that leaves the words of equal count in any order
sorted_unstable(cw, dom, var, asg, t) == order_domain_values(cw, dom, var, asg)

\* sorted(self.domains[var], key = count_conflicts) when the set iterates in
\* the order t: the words of equal count keep that order
sorted(cw, dom, var, asg, t) ==
    {p \in order_domain_values(cw, dom, var, asg) :
        t # None =>
            \A a, b \in 1..Len(p) :
                (a < b /\ count_conflicts(cw, dom, var, asg, p[a])
                            = count_conflicts(cw, dom, var, asg, p[b]))
                    => Place(t, p[a]) < Place(t, p[b])}

mrv(dom, var) == Cardinality(dom[var])
degree(cw, var) == Cardinality(neighbors(cw, var))

\* (mutant) the key (mrv(var), degree(var)): the fewest neighbors first
KeyLess_low_degree(cw, dom, a, b) ==
    \/ mrv(dom, a) < mrv(dom, b)
    \/ mrv(dom, a) = mrv(dom, b) /\ degree(cw, a) < degree(cw, b)

\* the key (mrv(var), -degree(var)) of a is smaller than that of b
KeyLess(cw, dom, a, b) ==
    \/ mrv(dom, a) < mrv(dom, b)
    \/ mrv(dom, a) = mrv(dom, b) /\ - degree(cw, a) < - degree(cw, b)

\* select_unassigned_variable: min() returns the first minimum of the list
select_unassigned_variable(cw, dom, asg, ord) ==
    LET unassigned == SelectSeq(ord, LAMBDA var : var \notin Keys(asg))
        k == CHOOSE k \in 1..Len(unassigned) :
                /\ \A m \in 1..Len(unassigned) : ~ KeyLess(cw, dom, unassigned[m], unassigned[k])
                /\ \A m \in 1..(k - 1) : KeyLess(cw, dom, unassigned[k], unassigned[m])
    IN  unassigned[k]

\* ------------------------------------------------------------ the run ---

Op(op, ret, arc) == [op |-> op, ret |-> ret, arc |-> arc]
Pending == [status |-> "pending", value |-> None]
FirstRun == [run |-> 1, result |-> Pending]

\* __init__: every domain is a copy of the vocabulary
InitWith(structures, vocabularies, entries, start) ==
    \E variables \in structures, words \in vocabularies, e \in entries :
        /\ crossword = Crossword(variables, words)
        /\ order \in Perms(variables)
        /\ entry = e
        /\ pc = start
        /\ domains = [var \in variables |-> words]
        /\ arcs = << >>
        /\ kind = "none"
        /\ stack = << >>
        /\ assignment = [var \in variables |-> None]
        /\ result = Pending
        /\ last = Op("__init__", "None", << >>)
        /\ before = domains
        /\ full = "none"
        /\ ties = None
        /\ first = FirstRun

\* the caller runs solve(), or enforce_node_consistency() and then
\* backtrack(dict())
Init == InitWith(Structures, Vocabularies(MaxVocab), {"solve", "backtrack"}, "node")

\* solve, line 93 (or the caller's own call of enforce_node_consistency)
NodeConsistency ==
    /\ pc = "node"
    /\ domains' = enforce_node_consistency(domains)
    /\ pc' = IF entry = "solve" THEN "ac3" ELSE "bt_enter"
    /\ last' = Op("enforce_node_consistency", "None", << >>)
    /\ before' = domains
    /\ UNCHANGED << ties, first, full, crossword, order, entry, arcs, kind, stack, assignment, result >>

\* solve, line 94: ac3() with no arcs given builds the deque of all arcs
Ac3Full ==
    /\ pc = "ac3"
    /\ arcs' = AllArcs(order)
    /\ kind' = "full"
    /\ pc' = "ac3_loop"
    /\ last' = Op("deque", "None", << >>)
    /\ before' = domains
    /\ UNCHANGED << ties, first, full, crossword, order, entry, domains, stack, assignment, result >>

\* (mutant) a backtrack that recurses whatever ac3 returned
Ac3Returns_unchecked(ret) ==
    /\ arcs' = << >>
    /\ pc' = "bt_enter"
    /\ full' = IF kind = "full" THEN ret ELSE full
    /\ assignment' = IF kind = "full" THEN EmptyAssignment(crossword) ELSE assignment
    /\ UNCHANGED << kind, stack, result >>

\* where control goes when the running ac3 call returns ret.  solve drops
\* the value of the full call and calls backtrack(dict()); backtrack
\* recurses on new_assignment after True and goes on with its loop after
\* False.
Ac3Returns(ret) ==
    /\ arcs' = << >>
    /\ pc' = IF kind = "full" \/ ret = "True" THEN "bt_enter" ELSE "bt_loop"
    /\ full' = IF kind = "full" THEN ret ELSE full
    /\ assignment' = IF kind = "full" THEN EmptyAssignment(crossword) ELSE assignment
    /\ UNCHANGED << kind, stack, result >>

\* ac3, lines 150-157: one turn of the while loop
Ac3Step ==
    /\ pc = "ac3_loop"
    /\ arcs # << >>
    /\ LET x == Head(arcs)[1]
           y == Head(arcs)[2]
       IN  \E r \in revise(domains, crossword, x, y) :
              /\ domains' = r.domains
              /\ before' = domains
              /\ IF r.ret = "IndexError"
                 THEN /\ pc' = "done"
                      /\ result' = [status |-> "IndexError", value |-> None]
                      /\ arcs' = << >>
                      /\ last' = Op("revise", r.ret, Head(arcs))
                      /\ UNCHANGED << kind, stack, assignment, full >>
                 ELSE IF r.ret = "True" /\ r.domains[x] = {}
                 THEN /\ Ac3Returns("False")
                      /\ last' = Op("ac3", "False", Head(arcs))
                 ELSE IF r.ret = "True"
                 THEN /\ \E z \in Perms(neighbors(crossword, x) \ {y}) :
                            arcs' = Tail(arcs) \o [k \in 1..Len(z) |-> << z[k], x >>]
                      /\ last' = Op("revise", r.ret, Head(arcs))
                      /\ UNCHANGED << pc, kind, stack, assignment, result, full >>
                 ELSE /\ arcs' = Tail(arcs)
                      /\ last' = Op("revise", r.ret, Head(arcs))
                      /\ UNCHANGED << pc, kind, stack, assignment, result, full >>
    /\ UNCHANGED << ties, first, crossword, order, entry >>

\* ac3, line 158: the deque is empty
Ac3Done ==
    /\ pc = "ac3_loop"
    /\ arcs = << >>
    /\ Ac3Returns("True")
    /\ last' = Op("ac3", "True", << >>)
    /\ before' = domains
    /\ UNCHANGED << ties, first, crossword, order, entry, domains >>

Top == stack[Len(stack)]

\* backtrack, lines 246-251: return a complete assignment (it has an entry
\* for every slot, so it is a true value at line 260 and every caller
\* returns it in turn, line 261), or select a slot and order its values
BacktrackEnter ==
    /\ pc = "bt_enter"
    /\ IF assignment_complete(crossword, assignment)
       THEN /\ result' = [status |-> "assignment", value |-> assignment]
            /\ stack' = << >>
            /\ pc' = "done"
            /\ last' = Op("backtrack", "assignment", << >>)
       ELSE LET var == select_unassigned_variable(crossword, domains, assignment, order)
            IN  /\ \E values \in sorted(crossword, domains, var, assignment, ties) :
                      stack' = Append(stack, [var |-> var, values |-> values,
                                              assignment |-> assignment, snapshot |-> domains])
                /\ pc' = "bt_loop"
                /\ last' = Op("order_domain_values", "list", << >>)
                /\ UNCHANGED result
    /\ before' = domains
    /\ UNCHANGED << ties, first, full, crossword, order, entry, domains, arcs, kind, assignment >>

\* backtrack, lines 251-258: the next value of the loop; a consistent
\* new_assignment starts ac3 on the arcs (var, neighbor).  The frame's
\* snapshot (history, the code keeps none) is the store at that moment.
BacktrackTry ==
    /\ pc = "bt_loop"
    /\ Top.values # << >>
    /\ LET var == Top.var
           value == Head(Top.values)
           new_assignment == [Top.assignment EXCEPT ![var] = value]
       IN  /\ stack' = [stack EXCEPT ![Len(stack)] =
                            [@ EXCEPT !.values = Tail(@), !.snapshot = domains]]
           /\ IF consistent(crossword, new_assignment)
              THEN /\ \E n \in Perms(neighbors(crossword, var)) :
                         arcs' = [k \in 1..Len(n) |-> << var, n[k] >>]
                   /\ kind' = "incr"
                   /\ pc' = "ac3_loop"
                   /\ assignment' = new_assignment
                   /\ last' = Op("consistent", "True", << >>)
              ELSE /\ last' = Op("consistent", "False", << >>)
                   /\ UNCHANGED << arcs, kind, pc, assignment >>
    /\ before' = domains
    /\ UNCHANGED << ties, first, full, crossword, order, entry, domains, result >>

\* backtrack, line 262: the loop is over, return None to the caller, which
\* goes on with its own loop (line 260), or to the entry method
BacktrackFail ==
    /\ pc = "bt_loop"
    /\ Top.values = << >>
    /\ stack' = SubSeq(stack, 1, Len(stack) - 1)
    /\ IF Len(stack) = 1
       THEN /\ pc' = "done"
            /\ result' = [status |-> "None", value |-> None]
       ELSE UNCHANGED << pc, result >>
    /\ last' = Op("backtrack", "None", << >>)
    /\ before' = domains
    /\ UNCHANGED << ties, first, full, crossword, order, entry, domains, arcs, kind, assignment >>

Next ==
    \/ NodeConsistency
    \/ Ac3Full
    \/ Ac3Step
    \/ Ac3Done
    \/ BacktrackEnter
    \/ BacktrackTry
    \/ BacktrackFail

Spec == Init /\ [][Next]_vars

\* the words the vocabularies of the runs checked to their end are drawn from
LivePool ==
    { <<"a", "a">>, <<"a", "b">>, <<"b", "a">>,
      <<"a", "a", "b">>, <<"a", "b", "a">>, <<"b", "a", "b">> }

InitLive ==
    InitWith(Structures, {W \in Vocabularies(MaxVocab) : W \subseteq LivePool},
             {"solve", "backtrack"}, "node")

\* the program runs on until it returns or raises: a step that can be taken
\* is taken
SpecLive == InitLive /\ [][Next]_vars /\ WF_vars(Next)

\* ----------------------------------------------------------- two runs ---
\* solve() run twice on the same structure and vocabulary, each time on a
\* new creator, with the same iteration order of the slots and of the words;
\* the order in which a set of neighbors iterates stays open.

InitTwice ==
    \E variables \in Structures, words \in Vocabularies(MaxVocab) :
        /\ crossword = Crossword(variables, words)
        /\ order \in Perms(variables)
        /\ ties \in Perms(words)
        /\ entry = "solve"
        /\ pc = "node"
        /\ domains = [var \in variables |-> words]
        /\ arcs = << >>
        /\ kind = "none"
        /\ stack = << >>
        /\ assignment = [var \in variables |-> None]
        /\ result = Pending
        /\ last = Op("__init__", "None", << >>)
        /\ before = domains
        /\ full = "none"
        /\ first = FirstRun

\* the first run is over: a new creator (__init__) and solve() again
Rerun ==
    /\ pc = "done"
    /\ first.run = 1
    /\ first' = [run |-> 2, result |-> result]
    /\ domains' = [var \in crossword.variables |-> crossword.words]
    /\ pc' = "node"
    /\ arcs' = << >>
    /\ kind' = "none"
    /\ stack' = << >>
    /\ assignment' = EmptyAssignment(crossword)
    /\ result' = Pending
    /\ last' = Op("__init__", "None", << >>)
    /\ before' = domains'
    /\ full' = "none"
    /\ UNCHANGED << crossword, order, entry, ties >>

NextTwice ==
    \/ Next
    \/ Rerun

SpecTwice == InitTwice /\ [][NextTwice]_vars

\* ---------------------------------------------- a call of consistent ---
\* consistent(assignment) on a new creator, for any assignment of vocabulary
\* words to some of the slots; order is the order of the keys of the dict.

InitConsistent ==
    \E variables \in Structures, words \in Vocabularies(MaxVocab) :
        /\ crossword = Crossword(variables, words)
        /\ order \in Perms(variables)
        /\ ties = None
        /\ entry = "consistent"
        /\ pc = "call"
        /\ domains = [var \in variables |-> words]
        /\ arcs = << >>
        /\ kind = "none"
        /\ stack = << >>
        /\ assignment \in [variables -> words \cup {None}]
        /\ result = Pending
        /\ last = Op("__init__", "None", << >>)
        /\ before = domains
        /\ full = "none"
        /\ first = FirstRun

CallConsistent ==
    /\ pc = "call"
    /\ \E ret \in consistent_call(crossword, assignment, order) :
        /\ result' = [status |-> ret, value |-> None]
        /\ last' = Op("consistent", ret, << >>)
    /\ pc' = "done"
    /\ before' = domains
    /\ UNCHANGED << crossword, order, entry, domains, arcs, kind, stack,
                    assignment, full, ties, first >>

NextConsistent == CallConsistent

SpecConsistent == InitConsistent /\ [][NextConsistent]_vars

\* ----------------------------------------------------- single calls ---
\* A caller that holds a creator with any store of vocabulary words and
\* calls one method twice in a row: enforce_node_consistency(), or
\* revise(x, y) for slots x and y of its choice.

InitUnit ==
    \E variables \in Structures, words \in Vocabularies(MaxUnitVocab) :
        /\ crossword = Crossword(variables, words)
        /\ order = CHOOSE p \in Perms(variables) : TRUE
        /\ entry = "unit"
        /\ pc = "unit0"
        /\ domains \in [variables -> SUBSET words]
        /\ arcs = << >>
        /\ kind = "none"
        /\ stack = << >>
        /\ assignment = [var \in variables |-> None]
        /\ result = Pending
        /\ last = Op("__init__", "None", << >>)
        /\ before = domains
        /\ full = "none"
        /\ ties = None
        /\ first = FirstRun

UnitNext(p) == IF p = "unit0" THEN "unit1" ELSE "unit2"

UnitEnforce ==
    /\ pc = "unit0" \/ (pc = "unit1" /\ kind = "node")
    /\ domains' = enforce_node_consistency(domains)
    /\ kind' = "node"
    /\ pc' = UnitNext(pc)
    /\ last' = Op("enforce_node_consistency", "None", << >>)
    /\ before' = domains
    /\ UNCHANGED << ties, first, full, crossword, order, entry, arcs, stack, assignment, result >>

\* result keeps what the first of the two calls returned
UnitRevise ==
    /\ pc = "unit0" \/ (pc = "unit1" /\ kind = "revise")
    /\ \E x, y \in crossword.variables :
          /\ pc = "unit1" => arcs = << <<x, y>> >>
          /\ \E r \in revise(domains, crossword, x, y) :
                /\ domains' = r.domains
                /\ last' = Op("revise", r.ret, <<x, y>>)
                /\ result' = IF pc = "unit0" THEN [status |-> r.ret, value |-> None] ELSE result
          /\ arcs' = << <<x, y>> >>
    /\ kind' = "revise"
    /\ pc' = UnitNext(pc)
    /\ before' = domains
    /\ UNCHANGED << ties, first, full, crossword, order, entry, stack, assignment >>

NextUnit ==
    \/ UnitEnforce
    \/ UnitRevise

SpecUnit == InitUnit /\ [][NextUnit]_vars

\* ------------------------------------------------------------- claims ---

\* a word for every slot, of the slot's length, no word twice, the same
\* letter at every overlap cell
Valid(cw, a) ==
    /\ \A v \in cw.variables : a[v] \in cw.words /\ Len(a[v]) = v.length
    /\ \A v1, v2 \in cw.variables : v1 # v2 => a[v1] # a[v2]
    /\ \A v1, v2 \in cw.variables :
          (v1 # v2 /\ Overlap(v1, v2) # None) =>
              a[v1][Overlap(v1, v2)[1] + 1] = a[v2][Overlap(v1, v2)[2] + 1]

Solutions(cw) ==
    {a \in [cw.variables -> {w \in cw.words : \E v \in cw.variables : Len(w) = v.length}] :
        Valid(cw, a)}

\* C1: an assignment that solve returns has a vocabulary word of the slot's
\* length for every slot, no word twice, and equal letters at every overlap.
SolveSound ==
    (entry = "solve" /\ result.status = "assignment") =>
        /\ DOMAIN result.value = crossword.variables
        /\ \A v \in crossword.variables : result.value[v] # None
        /\ Valid(crossword, result.value)

SolveSoundWitness ==
    /\ entry = "solve"
    /\ result.status = "assignment"
    /\ Cardinality(crossword.variables) = 3

\* C2: solve returns None only if no valid total assignment exists.
SolveComplete ==
    (entry = "solve" /\ result.status = "None") => Solutions(crossword) = {}

\* solve gave up after trying and dropping a value of a three-slot puzzle
SolveCompleteWitness ==
    /\ entry = "solve"
    /\ result.status = "None"
    /\ Cardinality(crossword.variables) = 3
    /\ \A v \in crossword.variables : domains[v] # {}

ArcConsistent(cw, dom) ==
    \A x, y \in cw.variables :
        (x # y /\ Overlap(x, y) # None) =>
            \A w \in dom[x] : \E w2 \in dom[y] :
                w[Overlap(x, y)[1] + 1] = w2[Overlap(x, y)[2] + 1]

\* C3: after an ac3 call of solve that returns True (the full call or a call
\* made by backtrack), every word of every domain has a word that agrees
\* with it at the overlap in the domain of every overlapping slot.
ArcConsistentAfterAc3 ==
    (entry = "solve" /\ last.op = "ac3" /\ last.ret = "True") =>
        ArcConsistent(crossword, domains)

\* a call made by backtrack returned True in a puzzle whose full call had
\* pruned a word of the right length
ArcConsistentAfterAc3Witness ==
    /\ entry = "solve"
    /\ last.op = "ac3"
    /\ last.ret = "True"
    /\ kind = "incr"
    /\ \E v \in crossword.variables :
          \E w \in crossword.words : Len(w) = v.length /\ w \notin domains[v]

\* C4: ac3 returns True iff it ends with no domain empty.
Ac3ReturnValue ==
    last.op = "ac3" =>
        (last.ret = "True" <=> \A v \in crossword.variables : domains[v] # {})

NodeConsistent(dom) == \A v \in DOMAIN dom : \A w \in dom[v] : Len(w) = v.length

\* C5: after enforce_node_consistency every domain holds exactly the words it
\* held before that have the slot's length, and a second call changes nothing.
NodeConsistencyPost ==
    /\ last.op = "enforce_node_consistency" =>
          \A v \in crossword.variables :
              /\ \A w \in domains[v] : w \in before[v] /\ Len(w) = v.length
              /\ \A w \in before[v] : Len(w) = v.length => w \in domains[v]
    /\ (pc = "unit2" /\ kind = "node") => domains = before

\* a call that dropped a word of one slot and kept another word of it
NodeConsistencyPostWitness ==
    /\ entry = "unit"
    /\ last.op = "enforce_node_consistency"
    /\ \E v \in crossword.variables : domains[v] # {} /\ domains[v] # before[v]

\* C6: revise(x, y) for distinct slots over node-consistent domains: without
\* an overlap nothing changes and it returns False; with one, the domain of x
\* becomes the words of x that a word of y supports, no other domain changes,
\* and it returns True iff a word was removed.
RevisePost ==
    (last.op = "revise" /\ NodeConsistent(before) /\ last.arc[1] # last.arc[2]) =>
        LET x == last.arc[1]
            y == last.arc[2]
        IN  /\ last.ret \in {"True", "False"}
            /\ \A v \in crossword.variables \ {x} : domains[v] = before[v]
            /\ IF Overlap(x, y) = None
               THEN domains[x] = before[x] /\ last.ret = "False"
               ELSE /\ domains[x] =
                          {w \in before[x] : \E w2 \in before[y] :
                              w[Overlap(x, y)[1] + 1] = w2[Overlap(x, y)[2] + 1]}
                    /\ last.ret = "True" <=> domains[x] # before[x]

\* revise removed one word of x and kept another
RevisePostWitness ==
    /\ last.op = "revise"
    /\ NodeConsistent(before)
    /\ last.arc[1] # last.arc[2]
    /\ last.ret = "True"
    /\ domains[last.arc[1]] # {}
    /\ domains[last.arc[2]] # {}

\* C7 as stated: for any store, the second of two revise(x, y) calls in a row
\* returns False and changes no domain.
ReviseIdempotentAnyStore ==
    (pc = "unit2" /\ kind = "revise") => (last.ret = "False" /\ domains = before)

\* C7 as amended: for any node-consistent store, the second of two
\* revise(x, y) calls in a row returns False and changes no domain.
ReviseIdempotent ==
    (pc = "unit2" /\ kind = "revise" /\ NodeConsistent(before)) =>
        (last.ret = "False" /\ domains = before)

\* the second call after a first call that removed a word
ReviseIdempotentWitness ==
    /\ pc = "unit2"
    /\ kind = "revise"
    /\ NodeConsistent(before)
    /\ result.status = "True"
    /\ domains[last.arc[1]] # {}

\* C8: an ac3 call that returns False stops the search from going on as if
\* the domains were consistent: after a False of the full call solve tries
\* no value and returns None; after a False of a call made by backtrack,
\* backtrack does not recurse and goes on with its loop.
EmptyDomainShortCircuit ==
    /\ (entry = "solve" /\ full = "False") =>
          /\ last.op # "consistent"
          /\ kind = "full"
          /\ pc = "done" => result.status = "None"
    /\ (last.op = "ac3" /\ last.ret = "False" /\ kind = "incr") => pc = "bt_loop"

\* solve is over after a full call that emptied one domain of a puzzle and
\* left words in another
EmptyDomainShortCircuitWitness ==
    /\ entry = "solve"
    /\ full = "False"
    /\ pc = "done"
    /\ \E v \in crossword.variables : domains[v] # {}

\* C9: when backtrack drops a value, because its ac3 call returned False or
\* because the recursive call returned None, the store equals the store as it
\* was just before that value's ac3 call.
DomainRestoredOnBacktrack ==
    (\/ last.op = "ac3" /\ last.ret = "False" /\ kind = "incr"
     \/ last.op = "backtrack" /\ last.ret = "None" /\ stack # << >>)
        => domains = Top.snapshot

\* C10: no step adds a word to a domain, and every domain is a subset of the
\* vocabulary.
MonotonicShrinking ==
    /\ [](\A v \in crossword.variables : domains[v] \subseteq crossword.words)
    /\ [][\A v \in crossword.variables : domains'[v] \subseteq domains[v]]_vars

\* a revise call of solve has just removed a word and kept another
MonotonicShrinkingWitness ==
    /\ entry = "solve"
    /\ last.op = "revise"
    /\ last.ret = "True"
    /\ domains[last.arc[1]] # before[last.arc[1]]
    /\ domains[last.arc[1]] # {}

\* C11: with the iteration order of the slots and of the words fixed, two runs
\* of solve on the same structure and vocabulary return the same result.
SolveDeterministic ==
    (first.run = 2 /\ pc = "done") => result = first.result

\* the second run of a puzzle with more than one valid assignment returned
\* one of them
SolveDeterministicWitness ==
    /\ first.run = 2
    /\ pc = "done"
    /\ result.status = "assignment"
    /\ Cardinality(Solutions(crossword)) > 1
    /\ Cardinality(crossword.variables) = 3

\* a step of the loop of ac3 that put arcs on the queue
Reenqueued ==
    /\ pc = "ac3_loop"
    /\ pc' = "ac3_loop"
    /\ Len(arcs') >= Len(arcs)

\* C12: every ac3 call, the full one and the ones seeded by backtrack, stops,
\* with True on an empty queue or with False on an emptied domain, and a step
\* of its loop puts arcs on the queue only when its revise call strictly
\* shrank a domain.
Ac3Terminates ==
    /\ (pc = "ac3_loop")
          ~> (/\ pc # "ac3_loop"
              /\ last.op = "ac3"
              /\ \/ last.ret = "True"
                 \/ last.ret = "False" /\ \E var \in DOMAIN domains : domains[var] = {})
    /\ [][Reenqueued =>
            \E var \in DOMAIN domains :
                /\ domains'[var] \subseteq domains[var]
                /\ domains'[var] # domains[var]]_vars

\* a step of the loop has just put an arc back on the queue: its revise call
\* on (x, y) shrank the domain of x, and (z, x) for another neighbor z of x
\* is now the last arc of the queue
Ac3TerminatesWitness ==
    /\ pc = "ac3_loop"
    /\ last.op = "revise"
    /\ last.ret = "True"
    /\ domains[last.arc[1]] # before[last.arc[1]]
    /\ arcs # << >>
    /\ arcs[Len(arcs)][2] = last.arc[1]
    /\ arcs[Len(arcs)][1] \in neighbors(crossword, last.arc[1]) \ {last.arc[2]}

\* the word of n agrees with the word of s at the cell the two slots share
Agrees(cw, s, v, n, w) ==
    LET overlap == cw.overlaps[<< s, n >>]
    IN  overlap # None => SameLetter(v, overlap[1], w, overlap[2])

\* C13: when backtrack has assigned v to s, the assignment is consistent and
\* the ac3 call seeded with the arcs (s, n) has returned True, every word left
\* in the domain of each neighbor n of s agrees with v at the overlap.
CommitmentPropagated ==
    (kind = "incr" /\ last.op = "ac3" /\ last.ret = "True")
        => \A n \in neighbors(crossword, Top.var) :
               \A w \in domains[n] :
                   Agrees(crossword, Top.var, assignment[Top.var], n, w)

\* the slots without a word in the assignment
Unassigned(asg) == {var \in DOMAIN asg : asg[var] = None}

\* C14: the slot select_unassigned_variable returns is unassigned, no
\* unassigned slot has a strictly smaller domain, and among the unassigned
\* slots with a domain of the same size none has strictly more neighbors.
SelectUnassignedVariablePost ==
    last.op = "order_domain_values"
        => LET s == Top.var
           IN  /\ s \in Unassigned(assignment)
               /\ \A u \in Unassigned(assignment) :
                   /\ Cardinality(domains[u]) >= Cardinality(domains[s])
                   /\ Cardinality(domains[u]) = Cardinality(domains[s])
                        => Cardinality({n \in crossword.variables :
                                          n # u /\ crossword.overlaps[<< u, n >>] # None})
                            <= Cardinality({n \in crossword.variables :
                                          n # s /\ crossword.overlaps[<< s, n >>] # None})

\* a slot was selected among three unassigned slots whose domains have the
\* same size and whose numbers of neighbors differ
SelectUnassignedVariablePostWitness ==
    /\ last.op = "order_domain_values"
    /\ Cardinality(Unassigned(assignment)) = 3
    /\ \A u \in Unassigned(assignment) :
          Cardinality(domains[u]) = Cardinality(domains[Top.var])
    /\ \E u \in Unassigned(assignment) :
          degree(crossword, u) < degree(crossword, Top.var)
    /\ domains[Top.var] # {}

\* the number of words of the domain of n whose letter at the cell shared with
\* s differs from the letter of v
Conflicts(cw, dom, s, v, n) ==
    LET overlap == cw.overlaps[<< s, n >>]
    IN  Cardinality({w \in dom[n] : w[overlap[2] + 1] # v[overlap[1] + 1]})

RECURSIVE ConflictSum(_, _, _, _, _)
\* the sum of Conflicts over the slots of the set ns
ConflictSum(cw, dom, s, v, ns) ==
    IF ns = {} THEN 0
    ELSE LET n == CHOOSE n \in ns : TRUE
         IN  Conflicts(cw, dom, s, v, n) + ConflictSum(cw, dom, s, v, ns \ {n})

\* the conflict count of the word v of slot s: the sum over the neighbors of
\* s that have no word in the assignment
ConflictCount(cw, dom, asg, s, v) ==
    ConflictSum(cw, dom, s, v,
                {n \in cw.variables :
                    n # s /\ cw.overlaps[<< s, n >>] # None /\ asg[n] = None})

\* C15: the sequence order_domain_values returns holds each word of the
\* domain of the slot exactly once and no other word, in order of
\* non-decreasing conflict count, and the call changes no domain.
OrderDomainValuesPost ==
    /\ [](last.op = "order_domain_values"
            => LET s == Top.var
                   values == Top.values
               IN  /\ Len(values) = Cardinality(domains[s])
                   /\ {values[k] : k \in 1..Len(values)} = domains[s]
                   /\ \A a, b \in 1..Len(values) :
                         a < b => ConflictCount(crossword, domains, assignment, s, values[a])
                                    <= ConflictCount(crossword, domains, assignment, s, values[b]))
    /\ [][last'.op = "order_domain_values" => domains' = domains]_vars

\* the call ordered a domain of three words, the first with fewer conflicts
\* than the last, which rules out more than one word
OrderDomainValuesPostWitness ==
    /\ last.op = "order_domain_values"
    /\ Len(Top.values) = 3
    /\ ConflictCount(crossword, domains, assignment, Top.var, Top.values[1])
         < ConflictCount(crossword, domains, assignment, Top.var, Top.values[3])
    /\ ConflictCount(crossword, domains, assignment, Top.var, Top.values[3]) > 1

\* the three conditions of a consistent assignment
ConsistentAssignment(cw, asg) ==
    /\ \A a, b \in Keys(asg) : a # b => asg[a] # asg[b]
    /\ \A a \in Keys(asg) : Len(asg[a]) = a.length
    /\ \A a, b \in Keys(asg) :
          (a # b /\ cw.overlaps[<< a, b >>] # None)
              => LET overlap == cw.overlaps[<< a, b >>]
                 IN  /\ overlap[1] < Len(asg[a])
                     /\ overlap[2] < Len(asg[b])
                     /\ asg[a][overlap[1] + 1] = asg[b][overlap[2] + 1]

\* C16: for every assignment consistent returns True when the assigned words
\* are pairwise distinct, each has the length of its slot and every two
\* assigned slots that overlap agree at the overlap, and False otherwise;
\* it changes no domain.
ConsistentPost ==
    (entry = "consistent" /\ last.op = "consistent")
        => /\ result.status = IF ConsistentAssignment(crossword, assignment)
                              THEN "True" ELSE "False"
           /\ domains = before

\* C17: in solve, once the full ac3 call has returned True, every ac3 call
\* backtrack makes returns True and no step removes a word, so the store
\* stays the one the full call left for the whole search.
IncrementalAc3RemovesNothing ==
    /\ []((entry = "solve" /\ full = "True" /\ kind = "incr" /\ last.op = "ac3")
            => last.ret = "True")
    /\ [][(entry = "solve" /\ full = "True") => domains' = domains]_vars

\* the ac3 call for the second slot of the search has returned, on a store
\* the full call had pruned
IncrementalAc3RemovesNothingWitness ==
    /\ entry = "solve"
    /\ full = "True"
    /\ kind = "incr"
    /\ last.op = "ac3"
    /\ last.ret = "True"
    /\ Len(stack) >= 2
    /\ \E var \in DOMAIN domains :
          domains[var] # {w \in crossword.words : Len(w) = var.length}

\* the valid total assignments that take each word from the slot's domain
SolutionsIn(cw, dom) ==
    {a \in Solutions(cw) : \A var \in cw.variables : a[var] \in dom[var]}

\* C18: node consistency, revise and ac3 never remove a word that its slot
\* takes in a valid total assignment: the valid total assignments drawn from
\* the domains are at every step the ones drawn from the vocabulary.
PruningPreservesSolutions ==
    SolutionsIn(crossword, domains) = Solutions(crossword)

\* the full ac3 call has removed a word of the right length from a domain of
\* a puzzle that has a valid total assignment
PruningPreservesSolutionsWitness ==
    /\ kind = "full"
    /\ last.op = "ac3"
    /\ Solutions(crossword) # {}
    /\ \E var \in DOMAIN domains :
          domains[var] # {w \in crossword.words : Len(w) = var.length}

\* every domain without the words that some neighbor's domain does not support
Supported(cw, dom) ==
    [x \in DOMAIN dom |->
        {xv \in dom[x] :
            \A y \in cw.variables :
                (y # x /\ cw.overlaps[<< x, y >>] # None)
                    => \E yv \in dom[y] :
                          xv[cw.overlaps[<< x, y >>][1] + 1]
                              = yv[cw.overlaps[<< x, y >>][2] + 1]}]

RECURSIVE ArcFixpoint(_, _)
\* the largest arc-consistent store inside dom; no order of arcs enters it
ArcFixpoint(cw, dom) ==
    IF Supported(cw, dom) = dom THEN dom ELSE ArcFixpoint(cw, Supported(cw, dom))

\* the node-consistent store of the crossword
NodeConsistentStore(cw) ==
    [var \in cw.variables |-> {w \in cw.words : Len(w) = var.length}]

\* C19: what the full ac3 call returns, and the store it leaves when it
\* returns True, are fixed by the node-consistent store it starts from,
\* whatever the order of the arcs on the queue and of the arcs put back:
\* it returns True exactly when arc consistency empties no domain that was
\* not empty, and the store is then the largest arc-consistent one.
Ac3OrderIndependent ==
    (kind = "full" /\ last.op = "ac3")
        => LET start == NodeConsistentStore(crossword)
               fix == ArcFixpoint(crossword, start)
           IN  /\ last.ret = "True"
                    <=> \A var \in crossword.variables :
                            fix[var] = {} => start[var] = {}
               /\ last.ret = "True" => domains = fix

\* the full call returned True on three slots after the domain of the slot
\* with two neighbors lost a word, which put an arc back on the queue
Ac3OrderIndependentWitness ==
    /\ kind = "full"
    /\ last.op = "ac3"
    /\ last.ret = "True"
    /\ \E var \in crossword.variables :
        /\ Cardinality(neighbors(crossword, var)) = 2
        /\ domains[var] # {}
        /\ domains[var] # NodeConsistentStore(crossword)[var]

====
